---- MODULE Spec2Model ----
(***************************************************************************)
(* A model of the three stages of the reddit -> graph pipeline:            *)
(*   - the Enricher            (src/llm.py),                               *)
(*   - the Collector           (src/scrp.py),                              *)
(*   - the Schema initializer  (src/setuo-neo.py).                         *)
(* The stages share no runtime state, so each has its own specification;   *)
(* the variables of the other stages stay at their idle values.            *)
(***************************************************************************)
EXTENDS Integers, Sequences, FiniteSets, TLC

VARIABLES
    \* ---- Enricher (src/llm.py)
    posts,            \* parsed content of posts.jsonl, or NoFile
    outFile,          \* content of posts_enriched.jsonl, or NoFile
    ePc,              \* "start" | "loop" | "done" | "noinput"
    idx,              \* the loop's i (1-based index of the post being analysed)
    enriched_count,
    failed_count,
    replyLog,         \* history: what the service call did for each post analysed in this run
    priorLines,       \* history: how many lines posts_enriched.jsonl held when this run began
    runNo,            \* which invocation of the enricher this is
    firstRun,         \* history: summary of the first invocation's output
    \* ---- Collector (src/scrp.py)
    feed,             \* what the source returns, in the order main visits it
    pos,              \* index in feed of the item main handles next
    curSubmission,    \* id of the submission whose comments are being flattened
    seen_users,
    postsFile,        \* lines of posts.jsonl
    commentsFile,     \* lines of comments.jsonl
    usersFile,        \* lines of users.jsonl
    subredditsFile,   \* lines of subreddits.jsonl
    cPc,              \* "start" | "run" | "done" | "source_unreachable" | "lookup_escaped"
    failedLookups,    \* history: the names whose reputation lookup failed in this run
    cBase,            \* history: how many lines each file held when this run began
    \* ---- Schema initializer (src/setuo-neo.py)
    db,               \* the graph database
    sPc,              \* "start" | "wipe" | "constraints" | "indexes" | "seed" | "verify" | "done" | "failed"
    sIdx,             \* how many statements of the current batch have been issued
    wipe,             \* args.wipe of this invocation
    stmtLog,          \* history: the statements this invocation has issued, in order
    sRun,             \* which invocation of the initializer this is
    db0,              \* history: the database before the first invocation
    dbFirst           \* history: the database after the first invocation

eVars == <<posts, outFile, ePc, idx, enriched_count, failed_count, replyLog, priorLines,
           runNo, firstRun>>

cVars == <<feed, pos, curSubmission, seen_users, postsFile, commentsFile, usersFile,
           subredditsFile, cPc, failedLookups, cBase>>

sVars == <<db, sPc, sIdx, wipe, stmtLog, sRun, db0, dbFirst>>

vars == <<eVars, cVars, sVars>>

----------------------------------------------------------------------------
(* Bounds *)
MaxPosts == 2

----------------------------------------------------------------------------
(* Enricher: src/llm.py *)

\* A file on disk: absent, or present with its lines.
NoFile == [exists |-> FALSE, lines |-> <<>>]
File(lines) == [exists |-> TRUE, lines |-> lines]

valid_categories == {"campus_life", "academics", "admissions"}
valid_sentiments == {"positive", "negative", "neutral"}

ErrorDescription == "Error during analysis"

\* A keywords value: a list (isList) with its items, or some non-list value.
KeywordList(items) == [isList |-> TRUE, items |-> items]
NotAList == [isList |-> FALSE, items |-> <<>>]

\* What client.responses.parse can do for one post: raise, or return a parsed
\* object whose fields are whatever the service produced.
ServiceCategories == valid_categories \cup {"housing"}
ServiceSentiments == valid_sentiments \cup {"mixed"}
ServiceKeywords == {KeywordList(<<>>), KeywordList(<<"exams">>), NotAList}
ServiceDescriptions == {"about exams", ErrorDescription}

ServiceReplies ==
    {[raised |-> TRUE, category |-> "campus_life", sentiment |-> "neutral",
      keywords |-> KeywordList(<<>>), description |-> ""]}
    \cup
    [raised : {FALSE}, category : ServiceCategories, sentiment : ServiceSentiments,
     keywords : ServiceKeywords, description : ServiceDescriptions]

\* The replies that differ only in what the (id, category, sentiment) triple can see.
CoarseReplies ==
    {r \in ServiceReplies :
        r.raised \/ (r.keywords = KeywordList(<<"exams">>) /\ r.description = "about exams")}

\* The i-th line of posts.jsonl as the collector wrote it; every other post
\* has an empty body.
InputPost(i) ==
    [id |-> i, title |-> "Hostel food", selftext |-> IF i % 2 = 1 THEN "" ELSE "is terrible"]

InputFiles == {File([i \in 1..n |-> InputPost(i)]) : n \in 0..MaxPosts} \cup {NoFile}

\* A record left in posts_enriched.jsonl by something earlier.
StaleRecord ==
    [id |-> 0, title |-> "old", selftext |-> "", category |-> "stale", sentiment |-> "stale",
     keywords |-> <<>>, llm_description |-> "stale"]

PriorOutputs == {NoFile, File(<<>>), File(<<StaleRecord>>)}

\* f"Title: {title}\nBody: {body if body else '[No body text]'}"
Content(title, body) ==
    <<"Title: ", title, "\nBody: ", IF body # "" THEN body ELSE "[No body text]">>

ValidateCategory_unchecked(c) == c

\* The validation of category.
ValidateCategory(c) == IF c \notin valid_categories THEN "campus_life" ELSE c

\* The validation of sentiment.
ValidateSentiment(s) == IF s \notin valid_sentiments THEN "neutral" ELSE s

\* The validation of keywords.
ValidateKeywords(k) == IF ~k.isList THEN KeywordList(<<>>) ELSE k

ErrorDefaults_zero ==
    [category |-> "campus_life", sentiment |-> "neutral",
     keywords |-> KeywordList(<<>>), description |-> ""]

\* The except branch's defaults.
ErrorDefaults ==
    [category |-> "campus_life", sentiment |-> "neutral",
     keywords |-> KeywordList(<<>>), description |-> ErrorDescription]

\* analyze_post, given what the service call did for Content(title, body).
analyze_post(content, reply) ==
    IF reply.raised
    THEN ErrorDefaults
    ELSE [category |-> ValidateCategory(reply.category),
          sentiment |-> ValidateSentiment(reply.sentiment),
          keywords |-> ValidateKeywords(reply.keywords),
          description |-> reply.description]

\* post[...] = analysis[...]: the post's own fields are kept, four are added.
Enriched(post, analysis) ==
    [id |-> post.id, title |-> post.title, selftext |-> post.selftext,
     category |-> analysis.category, sentiment |-> analysis.sentiment,
     keywords |-> analysis.keywords.items, llm_description |-> analysis.description]

ClearOutput_kept(file) == file

\* if OUTPUT_FILE.exists(): OUTPUT_FILE.unlink()
ClearOutput(file) == NoFile

AppendLine_truncating(file, rec) == File(<<rec>>)

\* open(OUTPUT_FILE, "a") ... write: creates the file when it is missing.
AppendLine(file, rec) == File(Append(file.lines, rec))

\* analysis.get("description") != "Error during analysis"
CountsAsEnriched(analysis) == analysis.description # ErrorDescription

\* What the idempotence property compares between two runs.
Ids(file) == [i \in 1..Len(file.lines) |-> file.lines[i].id]
Triples(file) ==
    {<<file.lines[i].id, file.lines[i].category, file.lines[i].sentiment>> :
        i \in 1..Len(file.lines)}
Summary(file) == [lines |-> Len(file.lines), ids |-> Ids(file), triples |-> Triples(file)]
NoSummary == [lines |-> 0, ids |-> <<>>, triples |-> {}]

EnrichInit ==
    /\ posts \in InputFiles
    /\ outFile \in PriorOutputs
    /\ ePc = "start"
    /\ idx = 1
    /\ enriched_count = 0
    /\ failed_count = 0
    /\ replyLog = <<>>
    /\ priorLines = 0
    /\ runNo = 1
    /\ firstRun = NoSummary

\* enrich_posts up to the loop: the input check, the read, the unlink, the counters.
EnrichStart ==
    /\ ePc = "start"
    /\ IF ~posts.exists
       THEN /\ ePc' = "noinput"
            /\ UNCHANGED <<outFile, idx, enriched_count, failed_count, replyLog, priorLines>>
       ELSE /\ outFile' = ClearOutput(outFile)
            /\ enriched_count' = 0
            /\ failed_count' = 0
            /\ idx' = 1
            /\ replyLog' = <<>>
            /\ priorLines' = Len(outFile.lines)
            /\ ePc' = IF Len(posts.lines) = 0 THEN "done" ELSE "loop"
    /\ UNCHANGED <<posts, runNo, firstRun>>
    /\ UNCHANGED <<cVars, sVars>>

\* One iteration of the loop over posts, the service having answered `reply`.
EnrichStep(reply) ==
    /\ ePc = "loop"
    /\ idx <= Len(posts.lines)
    /\ LET post == posts.lines[idx]
           analysis == analyze_post(Content(post.title, post.selftext), reply)
       IN /\ outFile' = AppendLine(outFile, Enriched(post, analysis))
          /\ IF CountsAsEnriched(analysis)
             THEN /\ enriched_count' = enriched_count + 1
                  /\ failed_count' = failed_count
             ELSE /\ failed_count' = failed_count + 1
                  /\ enriched_count' = enriched_count
    /\ replyLog' = Append(replyLog, reply)
    /\ idx' = idx + 1
    /\ ePc' = IF idx < Len(posts.lines) THEN "loop" ELSE "done"
    /\ UNCHANGED <<posts, priorLines, runNo, firstRun>>
    /\ UNCHANGED <<cVars, sVars>>

\* The operator runs the enricher a second time on the same posts.jsonl.
EnrichAgain ==
    /\ ePc = "done"
    /\ runNo = 1
    /\ firstRun' = Summary(outFile)
    /\ runNo' = 2
    /\ ePc' = "start"
    /\ UNCHANGED <<posts, outFile, idx, enriched_count, failed_count, replyLog, priorLines>>
    /\ UNCHANGED <<cVars, sVars>>

-----
(* Properties of the Enricher *)

Written == 1..Len(outFile.lines)
Raised == {i \in 1..Len(replyLog) : replyLog[i].raised}

\* C1: every record enrich_posts has appended to posts_enriched.jsonl has its
\* category in {campus_life, academics, admissions} and its sentiment in
\* {positive, negative, neutral}, whether the service call returned a value
\* inside the enum, a value outside it, or raised.
C1_EnrichedRecordsWithinEnums ==
    ePc \in {"loop", "done"} =>
        \A i \in Written :
            /\ outFile.lines[i].category \in {"campus_life", "academics", "admissions"}
            /\ outFile.lines[i].sentiment \in {"positive", "negative", "neutral"}

\* A finished run in which one call raised and another returned a category and
\* a sentiment outside the enums.
C1_Witness ==
    /\ ePc = "done"
    /\ Raised # {}
    /\ \E i \in 1..Len(replyLog) :
          /\ ~replyLog[i].raised
          /\ replyLog[i].category = "housing"
          /\ replyLog[i].sentiment = "mixed"

\* C2: when the classification call for a post raises, the record written for
\* that post has exactly category=campus_life, sentiment=neutral, keywords=[]
\* and llm_description="Error during analysis".
C2_RaisedCallYieldsDefaults ==
    ePc \in {"loop", "done"} =>
        \A i \in Raised :
            /\ i \in Written
            /\ outFile.lines[i].category = "campus_life"
            /\ outFile.lines[i].sentiment = "neutral"
            /\ outFile.lines[i].keywords = <<>>
            /\ outFile.lines[i].llm_description = "Error during analysis"

\* The call raised both for a post with an empty body and for one with a body.
C2_Witness ==
    /\ ePc = "done"
    /\ \E i, j \in Raised :
          /\ posts.lines[i].selftext = ""
          /\ posts.lines[j].selftext # ""

\* C3: when a run over n posts completes, posts_enriched.jsonl holds exactly n
\* records, the i-th with the id of the i-th input post, whatever the file held
\* before and whichever calls raised.
C3_OneRecordPerInputPost ==
    ePc = "done" =>
        /\ Len(outFile.lines) = Len(posts.lines)
        /\ \A i \in 1..Len(posts.lines) : outFile.lines[i].id = posts.lines[i].id

\* A finished run over at least two posts whose first call raised, the output
\* file having held a record before the run.
C3_Witness ==
    /\ ePc = "done"
    /\ priorLines > 0
    /\ Len(posts.lines) >= 2
    /\ 1 \in Raised
    /\ Len(outFile.lines) = Len(posts.lines)

\* C4 as claimed: a second run on the same posts.jsonl leaves a file with the
\* same number of lines and the same set of (id, category, sentiment) triples
\* as the first run.
C4_SameTriplesOnRerun ==
    (runNo = 2 /\ ePc = "done") =>
        /\ Len(outFile.lines) = firstRun.lines
        /\ Triples(outFile) = firstRun.triples

\* C4 as amended: a second run on the same posts.jsonl leaves a file with the
\* same number of lines and the same sequence of ids as the first run.
C4_SameLinesAndIdsOnRerun ==
    (runNo = 2 /\ ePc = "done") =>
        /\ Len(outFile.lines) = firstRun.lines
        /\ Ids(outFile) = firstRun.ids

\* A finished second run over at least two posts whose triples differ from the
\* first run's.
C4_Witness ==
    /\ runNo = 2
    /\ ePc = "done"
    /\ Len(posts.lines) >= 2
    /\ priorLines = Len(posts.lines)
    /\ Triples(outFile) # firstRun.triples

\* C10: at the end of a run succeeded + defaulted = number of input posts, and
\* the defaulted counter is exactly the number of posts whose call raised.
C10_DefaultedCountsRaisedCalls ==
    ePc = "done" =>
        /\ enriched_count + failed_count = Len(posts.lines)
        /\ failed_count = Cardinality(Raised)

----------------------------------------------------------------------------
(* Collector: src/scrp.py *)

MaxFeedItems == 4

\* Python's None where a number is expected; karma and timestamps are >= 0 here.
None == -1

\* submission.author / c.author: None, or a Redditor object with its name.
NoAuthor == [present |-> FALSE, name |-> ""]
Redditor(name) == [present |-> TRUE, name |-> name]
Authors == {NoAuthor, Redditor("alice"), Redditor("bob")}

\* The listing flattened in visit order: a submission, then the entries of its
\* comment forest (comments and "load more" placeholders), then the next one.
Items ==
    [kind : {"post", "comment"}, author : Authors] \cup {[kind |-> "more", author |-> NoAuthor]}

Feeds ==
    UNION {{f \in [1..n -> Items] : n > 0 => f[1].kind = "post"} : n \in 0..MaxFeedItems}

\* What reddit.redditor(name) and the attribute reads can do: fail, or give a
\* profile, some of whose attributes may be missing.
Profiles ==
    {[link_karma |-> 5, comment_karma |-> 3, created_utc |-> 100],
     [link_karma |-> None, comment_karma |-> 3, created_utc |-> 100],
     [link_karma |-> None, comment_karma |-> None, created_utc |-> None]}

LookupFailures == {"NotFound", "Forbidden", "ResponseException", "Exception"}

LookupOutcomes ==
    [kind : {"ok"}, profile : Profiles]
    \cup [kind : LookupFailures, profile : {[link_karma |-> None, comment_karma |-> None, created_utc |-> None]}]

\* x or 0
OrZero(x) == IF x = None THEN 0 ELSE x

\* safe_author: (author_id, author_name), without a fetch.
safe_author(author) ==
    IF ~author.present
    THEN [id |-> None, name |-> "[deleted]"]
    ELSE [id |-> None, name |-> IF author.name # "" THEN author.name ELSE "[deleted]"]

\* Whether fetch_user_meta gets as far as the lookup.
LooksUp(name) == ~(name = "" \/ name = "[deleted]")

fetch_user_meta_narrow(name, outcome) ==
    IF ~LooksUp(name)
    THEN [raised |-> FALSE, total_karma |-> None, created_utc |-> None]
    ELSE IF outcome.kind = "ok"
    THEN [raised |-> FALSE,
          total_karma |->
              IF outcome.profile.link_karma # None \/ outcome.profile.comment_karma # None
              THEN OrZero(outcome.profile.link_karma) + OrZero(outcome.profile.comment_karma)
              ELSE None,
          created_utc |->
              IF OrZero(outcome.profile.created_utc) # 0 THEN outcome.profile.created_utc ELSE None]
    ELSE IF outcome.kind \in {"NotFound", "Forbidden", "ResponseException"}
    THEN [raised |-> FALSE, total_karma |-> None, created_utc |-> None]
    ELSE [raised |-> TRUE, total_karma |-> None, created_utc |-> None]

\* fetch_user_meta: (total_karma, created_utc); raised tells whether an
\* exception leaves the function.
fetch_user_meta(name, outcome) ==
    IF ~LooksUp(name)
    THEN [raised |-> FALSE, total_karma |-> None, created_utc |-> None]
    ELSE IF outcome.kind = "ok"
    THEN [raised |-> FALSE,
          total_karma |->
              IF outcome.profile.link_karma # None \/ outcome.profile.comment_karma # None
              THEN OrZero(outcome.profile.link_karma) + OrZero(outcome.profile.comment_karma)
              ELSE None,
          created_utc |->
              IF OrZero(outcome.profile.created_utc) # 0 THEN outcome.profile.created_utc ELSE None]
    ELSE IF outcome.kind \in {"NotFound", "Forbidden", "ResponseException"}
    THEN [raised |-> FALSE, total_karma |-> None, created_utc |-> None]
    ELSE [raised |-> FALSE, total_karma |-> None, created_utc |-> None]

\* user_rec; a_id or f"name:{a_name}" is the name-derived key, a_id being None.
UserRec(a_id, a_name, meta) ==
    [type |-> "user", id |-> <<"name:", a_name>>, name |-> a_name,
     total_karma |-> meta.total_karma, account_created |-> meta.created_utc]

\* post_rec, with the fields of the submission the model carries.
PostRec(id, author) ==
    [type |-> "post", id |-> id, author_name |-> author.name]

LinkId_own(submissionId, commentId) == commentId

\* "link_id": submission.id
LinkId(submissionId, commentId) == submissionId

\* comment_rec, with the fields of the comment the model carries.
CommentRec(id, submissionId, author) ==
    [type |-> "comment", id |-> id, link_id |-> LinkId(submissionId, id),
     author_name |-> author.name]

\* if a_name and a_name not in seen_users
WritesPostUser(a_name, seen) == a_name # "" /\ a_name \notin seen

WritesCommentUser_always(ca_name, seen) == ca_name # "" /\ ca_name # "[deleted]"

\* if ca_name and ca_name not in seen_users and ca_name != "[deleted]"
WritesCommentUser(ca_name, seen) ==
    ca_name # "" /\ ca_name \notin seen /\ ca_name # "[deleted]"

\* What an earlier run of the collector left in the files.
EarlierPosts == <<PostRec(1, safe_author(Redditor("alice")))>>
EarlierComments == <<CommentRec(2, 1, safe_author(Redditor("bob")))>>
EarlierUsers ==
    <<UserRec(None, "alice", [total_karma |-> 8, created_utc |-> 100]),
      UserRec(None, "bob", [total_karma |-> None, created_utc |-> None])>>
EarlierSubreddits == <<[type |-> "subreddit", name |-> "giki"]>>

CollectInit ==
    /\ feed \in Feeds
    /\ pos = 1
    /\ curSubmission = 0
    /\ seen_users = {}
    /\ \E earlier \in BOOLEAN :
          /\ postsFile = IF earlier THEN EarlierPosts ELSE <<>>
          /\ commentsFile = IF earlier THEN EarlierComments ELSE <<>>
          /\ usersFile = IF earlier THEN EarlierUsers ELSE <<>>
          /\ subredditsFile = IF earlier THEN EarlierSubreddits ELSE <<>>
    /\ cPc = "start"
    /\ failedLookups = {}
    /\ cBase = [posts |-> Len(postsFile), comments |-> Len(commentsFile), users |-> Len(usersFile)]

\* main up to the loop: the subreddit snapshot and the empty seen set.
CollectStart ==
    /\ cPc = "start"
    /\ subredditsFile' = Append(subredditsFile, [type |-> "subreddit", name |-> "giki"])
    /\ seen_users' = {}
    /\ pos' = 1
    /\ cPc' = IF Len(feed) = 0 THEN "done" ELSE "run"
    /\ UNCHANGED <<feed, curSubmission, postsFile, commentsFile, usersFile, failedLookups, cBase>>
    /\ UNCHANGED <<eVars, sVars>>

\* The user part of an iteration: the lookup, the record, the seen set.  An
\* exception leaving fetch_user_meta is uncaught in main and ends the run.
UserPart(writes, a_name, a_id, outcome, next) ==
    IF writes
    THEN LET meta == fetch_user_meta(a_name, outcome)
         IN /\ failedLookups' =
                  IF LooksUp(a_name) /\ outcome.kind # "ok"
                  THEN failedLookups \cup {a_name} ELSE failedLookups
            /\ IF meta.raised
               THEN /\ cPc' = "lookup_escaped"
                    /\ UNCHANGED <<usersFile, seen_users, pos>>
               ELSE /\ usersFile' = Append(usersFile, UserRec(a_id, a_name, meta))
                    /\ seen_users' = seen_users \cup {a_name}
                    /\ pos' = pos + 1
                    /\ cPc' = next
    ELSE /\ UNCHANGED <<usersFile, seen_users, failedLookups>>
         /\ pos' = pos + 1
         /\ cPc' = next

\* One iteration of the loop over submissions, up to the comment loop: the post
\* record, the post author's user record, the fetch of the comment forest.
CollectPost(outcome, commentsFetched) ==
    /\ cPc = "run"
    /\ pos <= Len(feed)
    /\ feed[pos].kind = "post"
    /\ LET a == safe_author(feed[pos].author)
       IN /\ postsFile' = Append(postsFile, PostRec(pos, a))
          /\ UserPart(WritesPostUser(a.name, seen_users), a.name, a.id, outcome,
                      IF ~commentsFetched THEN "source_unreachable"
                      ELSE IF pos = Len(feed) THEN "done" ELSE "run")
    /\ curSubmission' = pos
    /\ UNCHANGED <<feed, commentsFile, subredditsFile, cBase>>
    /\ UNCHANGED <<eVars, sVars>>

\* One iteration of the loop over the flattened comments.
CollectComment(outcome) ==
    /\ cPc = "run"
    /\ pos <= Len(feed)
    /\ feed[pos].kind # "post"
    /\ LET next == IF pos = Len(feed) THEN "done" ELSE "run"
           ca == safe_author(feed[pos].author)
       IN IF feed[pos].kind = "more"
          THEN /\ pos' = pos + 1
               /\ cPc' = next
               /\ UNCHANGED <<commentsFile, usersFile, seen_users, failedLookups>>
          ELSE /\ commentsFile' = Append(commentsFile, CommentRec(pos, curSubmission, ca))
               /\ UserPart(WritesCommentUser(ca.name, seen_users), ca.name, ca.id, outcome, next)
    /\ UNCHANGED <<feed, curSubmission, postsFile, subredditsFile, cBase>>
    /\ UNCHANGED <<eVars, sVars>>

\* The source cannot be reached for the subreddit or for the listing: the
\* exception is uncaught and ends the run.
SourceFails ==
    /\ \/ cPc = "start"
       \/ cPc = "run" /\ pos <= Len(feed) /\ feed[pos].kind = "post"
    /\ cPc' = "source_unreachable"
    /\ UNCHANGED <<feed, pos, curSubmission, seen_users, postsFile, commentsFile, usersFile,
                   subredditsFile, failedLookups, cBase>>
    /\ UNCHANGED <<eVars, sVars>>

----------------------------------------------------------------------------
(* Schema initializer: src/setuo-neo.py *)

MaxDataNodes == 1
MaxDataRels == 1

\* The names of the constraints the CONSTRAINTS statements create, in order.
CONSTRAINTS ==
    <<"user_id", "post_id", "comment_id", "subreddit_name", "category_name", "keyword_name">>

\* The names of the indexes the INDEXES statements create, in order.
INDEXES ==
    <<"post_created", "post_iso_day", "post_category", "comment_created", "user_name">>

CATEGORIES ==
    <<[name |-> "campus_life", desc |-> "Student life, events, hostel/food, ..."],
      [name |-> "academics", desc |-> "Courses, exams, professors, ..."],
      [name |-> "admissions", desc |-> "Applications, entrance tests, ..."]>>

CategoryNames == {CATEGORIES[i].name : i \in DOMAIN CATEGORIES}

\* A Category node without a description property.
NullDesc == "<null>"

Prefix(seq, k) == {seq[i] : i \in 1..k}

\* coalesce(a, b)
Coalesce(a, b) == IF a # NullDesc THEN a ELSE b

\* The databases an invocation may meet: the schema objects an earlier, possibly
\* interrupted, invocation left; per seed name no Category node, one without a
\* description, one with a description of its own, or (only while the
\* uniqueness constraint on Category.name is missing) two nodes; other nodes
\* and relationships loaded meanwhile.
Databases ==
    {d \in [constraints : {Prefix(CONSTRAINTS, k) : k \in 0..Len(CONSTRAINTS)},
            indexes : {Prefix(INDEXES, k) : k \in 0..Len(INDEXES)},
            categories : [CategoryNames -> {<<>>, <<NullDesc>>, <<"edited by hand">>,
                                            <<"edited by hand", NullDesc>>}],
            nodes : 0..MaxDataNodes,
            rels : 0..MaxDataRels] :
        /\ d.indexes # {} => d.constraints = Prefix(CONSTRAINTS, Len(CONSTRAINTS))
        /\ "category_name" \in d.constraints =>
              \A n \in CategoryNames : Len(d.categories[n]) <= 1
        /\ d.rels > 0 => (d.nodes > 0 \/ \E n \in CategoryNames : d.categories[n] # <<>>)}

Stmt(kind, name) == [kind |-> kind, name |-> name]

\* MATCH (n) DETACH DELETE n
WipeAll(d) ==
    [d EXCEPT !.categories = [n \in CategoryNames |-> <<>>], !.nodes = 0, !.rels = 0]

\* Whether CREATE CONSTRAINT ... IS UNIQUE is refused by the data present.
Refused(d, name) ==
    name = "category_name" /\ \E n \in CategoryNames : Len(d.categories[n]) > 1

\* CREATE CONSTRAINT name IF NOT EXISTS ...
CreateConstraint(d, name) == [d EXCEPT !.constraints = @ \cup {name}]

\* CREATE INDEX name IF NOT EXISTS ...
CreateIndex(d, name) == [d EXCEPT !.indexes = @ \cup {name}]

Merge_overwrite(d, name, desc) ==
    [d EXCEPT !.categories[name] =
        IF @ = <<>> THEN <<desc>> ELSE [i \in DOMAIN @ |-> desc]]

\* MERGE (c:Category {name: $name})
\*   ON CREATE SET c.description = $desc
\*   ON MATCH  SET c.description = coalesce(c.description, $desc)
Merge(d, name, desc) ==
    [d EXCEPT !.categories[name] =
        IF @ = <<>> THEN <<desc>> ELSE [i \in DOMAIN @ |-> Coalesce(@[i], desc)]]

AfterPing_always(flag) == "wipe"

\* if args.wipe: wipe_all(session); then the constraints.
AfterPing(flag) == IF flag THEN "wipe" ELSE "constraints"

SchemaInit ==
    /\ db \in Databases
    /\ sPc = "start"
    /\ sIdx = 0
    /\ wipe \in BOOLEAN
    /\ stmtLog = <<>>
    /\ sRun = 1
    /\ db0 = db
    /\ dbFirst = db

\* The except branch of main: the message, exit status 1, the driver closed.
Fails ==
    /\ sPc' = "failed"
    /\ UNCHANGED <<db, sIdx>>

\* The quick ping; ok tells whether the statement succeeded.
SchemaPing(ok) ==
    /\ sPc = "start"
    /\ stmtLog' = Append(stmtLog, Stmt("ping", "RETURN 1"))
    /\ IF ok
       THEN /\ sPc' = AfterPing(wipe)
            /\ UNCHANGED <<db, sIdx>>
       ELSE Fails
    /\ UNCHANGED <<wipe, sRun, db0, dbFirst>>
    /\ UNCHANGED <<eVars, cVars>>

\* wipe_all
SchemaWipe(ok) ==
    /\ sPc = "wipe"
    /\ stmtLog' = Append(stmtLog, Stmt("wipe", "DETACH DELETE"))
    /\ IF ok
       THEN /\ db' = WipeAll(db)
            /\ sPc' = "constraints"
            /\ UNCHANGED sIdx
       ELSE Fails
    /\ UNCHANGED <<wipe, sRun, db0, dbFirst>>
    /\ UNCHANGED <<eVars, cVars>>

\* One statement of run_batch(session, CONSTRAINTS, ...).
SchemaConstraint(ok) ==
    /\ sPc = "constraints"
    /\ sIdx < Len(CONSTRAINTS)
    /\ LET name == CONSTRAINTS[sIdx + 1]
       IN /\ stmtLog' = Append(stmtLog, Stmt("constraint", name))
          /\ IF ok /\ (name \in db.constraints \/ ~Refused(db, name))
             THEN /\ db' = CreateConstraint(db, name)
                  /\ sIdx' = IF sIdx + 1 = Len(CONSTRAINTS) THEN 0 ELSE sIdx + 1
                  /\ sPc' = IF sIdx + 1 = Len(CONSTRAINTS) THEN "indexes" ELSE "constraints"
             ELSE Fails
    /\ UNCHANGED <<wipe, sRun, db0, dbFirst>>
    /\ UNCHANGED <<eVars, cVars>>

\* One statement of run_batch(session, INDEXES, ...).
SchemaIndex(ok) ==
    /\ sPc = "indexes"
    /\ sIdx < Len(INDEXES)
    /\ LET name == INDEXES[sIdx + 1]
       IN /\ stmtLog' = Append(stmtLog, Stmt("index", name))
          /\ IF ok
             THEN /\ db' = CreateIndex(db, name)
                  /\ sIdx' = IF sIdx + 1 = Len(INDEXES) THEN 0 ELSE sIdx + 1
                  /\ sPc' = IF sIdx + 1 = Len(INDEXES) THEN "seed" ELSE "indexes"
             ELSE Fails
    /\ UNCHANGED <<wipe, sRun, db0, dbFirst>>
    /\ UNCHANGED <<eVars, cVars>>

\* One statement of seed_categories.
SchemaSeed(ok) ==
    /\ sPc = "seed"
    /\ sIdx < Len(CATEGORIES)
    /\ LET c == CATEGORIES[sIdx + 1]
       IN /\ stmtLog' = Append(stmtLog, Stmt("seed", c.name))
          /\ IF ok
             THEN /\ db' = Merge(db, c.name, c.desc)
                  /\ sIdx' = IF sIdx + 1 = Len(CATEGORIES) THEN 0 ELSE sIdx + 1
                  /\ sPc' = IF sIdx + 1 = Len(CATEGORIES) THEN "verify" ELSE "seed"
             ELSE Fails
    /\ UNCHANGED <<wipe, sRun, db0, dbFirst>>
    /\ UNCHANGED <<eVars, cVars>>

\* verify: reads only.
SchemaVerify(ok) ==
    /\ sPc = "verify"
    /\ stmtLog' = Append(stmtLog, Stmt("verify", "SHOW"))
    /\ IF ok
       THEN /\ sPc' = "done"
            /\ UNCHANGED <<db, sIdx>>
       ELSE Fails
    /\ UNCHANGED <<wipe, sRun, db0, dbFirst>>
    /\ UNCHANGED <<eVars, cVars>>

\* The operator runs the initializer a second time against the same database.
SchemaAgain ==
    /\ sPc = "done"
    /\ sRun = 1
    /\ dbFirst' = db
    /\ sRun' = 2
    /\ wipe' \in BOOLEAN
    /\ stmtLog' = <<>>
    /\ sPc' = "start"
    /\ sIdx' = 0
    /\ UNCHANGED <<db, db0>>
    /\ UNCHANGED <<eVars, cVars>>

----------------------------------------------------------------------------
(* The specifications: one stage runs, the others are idle. *)

EnrichIdle ==
    /\ posts = NoFile
    /\ outFile = NoFile
    /\ ePc = "idle"
    /\ idx = 1
    /\ enriched_count = 0
    /\ failed_count = 0
    /\ replyLog = <<>>
    /\ priorLines = 0
    /\ runNo = 1
    /\ firstRun = NoSummary

CollectIdle ==
    /\ feed = <<>>
    /\ pos = 1
    /\ curSubmission = 0
    /\ seen_users = {}
    /\ postsFile = <<>>
    /\ commentsFile = <<>>
    /\ usersFile = <<>>
    /\ subredditsFile = <<>>
    /\ cPc = "idle"
    /\ failedLookups = {}
    /\ cBase = [posts |-> 0, comments |-> 0, users |-> 0]

SchemaIdle ==
    /\ db = [constraints |-> {}, indexes |-> {}, categories |-> [n \in CategoryNames |-> <<>>],
             nodes |-> 0, rels |-> 0]
    /\ sPc = "idle"
    /\ sIdx = 0
    /\ wipe = FALSE
    /\ stmtLog = <<>>
    /\ sRun = 1
    /\ db0 = db
    /\ dbFirst = db

InitEnrich == EnrichInit /\ CollectIdle /\ SchemaIdle

NextEnrich ==
    \/ EnrichStart
    \/ \E reply \in ServiceReplies : EnrichStep(reply)

SpecEnrich == InitEnrich /\ [][NextEnrich]_vars

NextRerun ==
    \/ EnrichStart
    \/ \E reply \in CoarseReplies : EnrichStep(reply)
    \/ EnrichAgain

SpecRerun == InitEnrich /\ [][NextRerun]_vars

InitCollect == CollectInit /\ EnrichIdle /\ SchemaIdle

NextCollect ==
    \/ CollectStart
    \/ \E outcome \in LookupOutcomes, commentsFetched \in BOOLEAN :
          CollectPost(outcome, commentsFetched)
    \/ \E outcome \in LookupOutcomes : CollectComment(outcome)
    \/ SourceFails

SpecCollect == InitCollect /\ [][NextCollect]_vars

InitSchema == SchemaInit /\ EnrichIdle /\ CollectIdle

NextSchema ==
    \/ \E ok \in BOOLEAN : SchemaPing(ok)
    \/ \E ok \in BOOLEAN : SchemaWipe(ok)
    \/ \E ok \in BOOLEAN : SchemaConstraint(ok)
    \/ \E ok \in BOOLEAN : SchemaIndex(ok)
    \/ \E ok \in BOOLEAN : SchemaSeed(ok)
    \/ \E ok \in BOOLEAN : SchemaVerify(ok)
    \/ SchemaAgain

SpecSchema == InitSchema /\ [][NextSchema]_vars

----------------------------------------------------------------------------
(* Properties of the Collector *)

\* The records this run has appended to each file.
RunPosts == SubSeq(postsFile, cBase.posts + 1, Len(postsFile))
RunComments == SubSeq(commentsFile, cBase.comments + 1, Len(commentsFile))
RunUsers == SubSeq(usersFile, cBase.users + 1, Len(usersFile))

FeedIds(kind) == {i \in 1..Len(feed) : feed[i].kind = kind}
AuthorNames == {"alice", "bob", "[deleted]"}

\* C5: within one run users.jsonl receives at most one User record per
\* distinct author name, whether the name first appears as a post author or as
\* a comment author.
C5_OneUserRecordPerName ==
    \A name \in AuthorNames :
        Cardinality({j \in 1..Len(RunUsers) : RunUsers[j].name = name}) <= 1

\* A finished run where one name wrote a post and, later, a comment and another
\* post, and another name first commented and then posted.
C5_Witness ==
    /\ cPc = "done"
    /\ \E i, j, k \in 1..Len(feed) :
          /\ i < j /\ j < k
          /\ feed[i] = [kind |-> "comment", author |-> Redditor("bob")]
          /\ feed[j] = [kind |-> "post", author |-> Redditor("bob")]
          /\ feed[k] = [kind |-> "comment", author |-> Redditor("alice")]
          /\ feed[1] = [kind |-> "post", author |-> Redditor("alice")]
    /\ Len(RunUsers) = 2

\* C6: every Comment record of a run is appended only after the Post record
\* whose id is the comment's link_id was appended in the same run: at no point
\* does comments.jsonl hold a record of this run whose link_id names a post this
\* run has not written yet.
C6_CommentAfterItsPost ==
    \A j \in 1..Len(RunComments) :
        \E k \in 1..Len(RunPosts) : RunPosts[k].id = RunComments[j].link_id

\* Two submissions, each with a comment written, on top of an earlier run's files.
C6_Witness ==
    /\ cBase.comments > 0
    /\ Len(RunPosts) = 2
    /\ \E i, j \in 1..Len(RunComments) : RunComments[i].link_id # RunComments[j].link_id

\* C7: when the reputation lookup for an author fails, fetch_user_meta yields
\* (None, None), the author's User record is still written with total_karma
\* and account_created null, no exception leaves the lookup, and a run the
\* source does not break writes every post and every comment of the listing.
C7_FailedLookupDegrades ==
    /\ cPc # "lookup_escaped"
    /\ \A name \in failedLookups :
          \E j \in 1..Len(RunUsers) :
              /\ RunUsers[j].name = name
              /\ RunUsers[j].total_karma = None
              /\ RunUsers[j].account_created = None
    /\ cPc = "done" =>
          /\ {RunPosts[k].id : k \in 1..Len(RunPosts)} = FeedIds("post")
          /\ {RunComments[k].id : k \in 1..Len(RunComments)} = FeedIds("comment")
          /\ Len(RunPosts) = Cardinality(FeedIds("post"))
          /\ Len(RunComments) = Cardinality(FeedIds("comment"))

\* A finished run whose first lookup (the first post's author) failed and which
\* went on to write a comment and a second post.
C7_Witness ==
    /\ cPc = "done"
    /\ Len(feed) >= 3
    /\ feed[1].author.present
    /\ feed[1].author.name \in failedLookups
    /\ Len(RunComments) >= 1
    /\ Len(RunPosts) >= 2

----------------------------------------------------------------------------
(* Properties of the Schema initializer *)

Issued(kind) == {i \in 1..Len(stmtLog) : stmtLog[i].kind = kind}

\* C8: running the initializer a second time without --wipe leaves the same
\* constraints, indexes and Category nodes as the first run left; a completed
\* run leaves exactly one Category node per seed name; and a Category node that
\* had a description before a run without --wipe keeps it.
C8_InitializationIdempotent ==
    /\ (sRun = 2 /\ sPc = "done" /\ ~wipe) =>
          /\ db.constraints = dbFirst.constraints
          /\ db.indexes = dbFirst.indexes
          /\ db.categories = dbFirst.categories
    /\ sPc = "done" =>
          /\ \A n \in CategoryNames : Len(db.categories[n]) = 1
          /\ db.constraints = {CONSTRAINTS[i] : i \in DOMAIN CONSTRAINTS}
          /\ db.indexes = {INDEXES[i] : i \in DOMAIN INDEXES}
    /\ (sRun = 1 /\ sPc = "done" /\ ~wipe) =>
          \A n \in CategoryNames :
              \A i \in DOMAIN db0.categories[n] :
                  db0.categories[n][i] # NullDesc =>
                      db.categories[n][i] = db0.categories[n][i]

\* A second run without --wipe has completed on a database that began with no
\* constraint, one Category node with a description of its own, one without a
\* description and one missing.
C8_Witness ==
    /\ sRun = 2 /\ sPc = "done" /\ ~wipe
    /\ db0.constraints = {}
    /\ db0.categories["campus_life"] = <<"edited by hand">>
    /\ db0.categories["academics"] = <<NullDesc>>
    /\ db0.categories["admissions"] = <<>>
    /\ db.categories["campus_life"] = <<"edited by hand">>

\* C9: without --wipe no run issues the delete-all statement and the data stays;
\* with --wipe it is issued right after the connection check and before any
\* constraint, index or seed statement, and the database holds no node and no
\* relationship when seeding begins.
C9_WipeOnlyOnRequest ==
    /\ ~wipe => Issued("wipe") = {}
    /\ (~wipe /\ sRun = 1) => (db.nodes = db0.nodes /\ db.rels = db0.rels)
    /\ (wipe /\ Issued("constraint") \cup Issued("index") \cup Issued("seed") # {}) =>
          /\ stmtLog[1].kind = "ping"
          /\ stmtLog[2].kind = "wipe"
          /\ Issued("wipe") = {2}
    /\ (wipe /\ sPc = "seed" /\ sIdx = 0) =>
          /\ db.nodes = 0
          /\ db.rels = 0
          /\ \A n \in CategoryNames : db.categories[n] = <<>>

\* A run with --wipe is about to seed a database that held nodes (two Category
\* nodes of one name among them) and relationships.
C9_Witness ==
    /\ wipe /\ sRun = 1 /\ sPc = "seed" /\ sIdx = 0
    /\ db0.nodes > 0 /\ db0.rels > 0
    /\ Len(db0.categories["campus_life"]) = 2
    /\ db.nodes = 0 /\ db.rels = 0

====
